---- MODULE Spec2Model ----
(***************************************************************************)
(* Order processing of resolucao/sistema_refatorado.py.                    *)
(*                                                                         *)
(* A ProcessadorDePedidos owns one MetodoPagamento and a list of           *)
(* Notificador objects.  processar(pedido) prints a header (reading        *)
(* pedido['id'] and pedido['valor']), calls the payment method, calls each *)
(* notifier in list order, sets pedido['status'] = 'concluido' and returns *)
(* True; a False payment returns False at once; an exception that is an    *)
(* instance of Exception is caught and turned into False.                  *)
(*                                                                         *)
(* The model follows one processar call statement by statement.  A pedido  *)
(* is a dict: the set of keys it holds (besides 'status') and the value of *)
(* 'status'.  The payment method and the notifiers are the concrete        *)
(* classes of the file plus subclasses of the two abstract classes that    *)
(* return False or raise.                                                  *)
(***************************************************************************)
EXTENDS Integers, Sequences, FiniteSets, TLC

\* Longest list of notifiers handed to the constructor.
MaxNotificadores == 2

\* How many times the caller calls processar on its pedido.
MaxChamadas == 2

\* Keys missing from a pedido handed to one of two simultaneous calls.
MaxAusentes == 1

\* The callers of processar; each has a pedido of its own.
Invocadores == {"a", "b"}

VARIABLES
    processador,   \* the ProcessadorDePedidos: [metodo_pagamento, notificadores]
    pedido,        \* pedido[a]: the dict caller a passes to processar
    pc,            \* pc[a]: where caller a's processar call stands
    i,             \* i[q]: the iterator of the for loop in frame q
    exc,           \* exc[a]: the exception raised in the current call, "nenhuma" if none
    retorno,       \* retorno[a]: "True" or "False" as returned by the last call,
                   \* "excecao" if it raised, "nenhum" while there is none
    chamadas,      \* chamadas[a]: the collaborator calls of the current call
    atribuiu,      \* atribuiu[a]: the current call executed pedido['status'] = ...
    pedido_antes,  \* pedido_antes[a]: pedido[a] when the current call began
    restantes,     \* restantes[a]: calls caller a has still to make
    simultaneas    \* TRUE once two calls have been in progress at the same time

vars == <<processador, pedido, pc, i, exc, retorno, chamadas, atribuiu,
          pedido_antes, restantes, simultaneas>>

---------------------------------------------------------------------------
(* Exceptions *)

\* Raised by dict subscription on a missing key, and by an injected
\* collaborator: both are instances of Exception.
SubclassesDeException == {"KeyError", "RuntimeError"}

\* Instances of BaseException that are not instances of Exception.
SomenteBaseException == {"KeyboardInterrupt"}

Excecoes == SubclassesDeException \cup SomenteBaseException

\* A handler that names one exception class only.
CapturadaSoKeyError(e) == e = "KeyError"

\* except Exception as e: the handler takes instances of Exception only.
Capturada(e) == e \in SubclassesDeException

\* A handler that answers True.
RetornoDoExceptTrue == "True"

\* The value the handler returns.
RetornoDoExcept == "False"

---------------------------------------------------------------------------
(* The pedido *)

CamposLidos == {"id", "valor", "cliente_email"}

Pedidos == [campos : SUBSET CamposLidos, status : {"pendente", "concluido"}]

\* The pedidos of the example: every key present, status 'pendente'.
PedidoBemFormado == [campos |-> CamposLidos, status |-> "pendente"]

BemFormado(ped) == ped.campos = CamposLidos

\* A completion that forgets the assignment.
ConcluirSemAtribuir(ped) == ped

\* pedido['status'] = 'concluido'
Concluir(ped) == [ped EXCEPT !.status = "concluido"]

---------------------------------------------------------------------------
(* Outcome of a call to a collaborator: a returned value or an exception *)

Retorna(v) == [exc |-> "nenhuma", valor |-> v]

Levanta(e) == [exc |-> e, valor |-> FALSE]

\* pedido[campo] inside an expression that then yields v.
Lendo(ped, campo, v) ==
    IF campo \in ped.campos THEN Retorna(v) ELSE Levanta("KeyError")

---------------------------------------------------------------------------
(* Payment methods *)

PagamentosConcretos ==
    {"PagamentoCartaoCredito", "PagamentoBoleto", "PagamentoPix"}

\* Subclasses of MetodoPagamento other than the three of the file.
PagamentosInjetados ==
    {"PagamentoRetornaFalse", "PagamentoLevantaErro",
     "PagamentoLevantaInterrupcao"}

MetodosPagamento == PagamentosConcretos \cup PagamentosInjetados

processar_pagamento(m, ped) ==
    CASE m \in PagamentosConcretos -> Lendo(ped, "valor", TRUE)
      [] m = "PagamentoRetornaFalse" -> Retorna(FALSE)
      [] m = "PagamentoLevantaErro" -> Levanta("RuntimeError")
      [] m = "PagamentoLevantaInterrupcao" -> Levanta("KeyboardInterrupt")

---------------------------------------------------------------------------
(* Notifiers *)

NotificadoresConcretos == {"NotificadorEmail", "NotificadorSMS"}

\* Subclasses of Notificador other than the two of the file.
NotificadoresInjetados ==
    {"NotificadorRetornaFalse", "NotificadorLevantaErro",
     "NotificadorLevantaInterrupcao"}

ClassesNotificador == NotificadoresConcretos \cup NotificadoresInjetados

enviar_notificacao(n, ped) ==
    CASE n = "NotificadorEmail" -> Lendo(ped, "cliente_email", TRUE)
      [] n = "NotificadorSMS" -> Lendo(ped, "id", TRUE)
      [] n = "NotificadorRetornaFalse" -> Retorna(FALSE)
      [] n = "NotificadorLevantaErro" -> Levanta("RuntimeError")
      [] n = "NotificadorLevantaInterrupcao" -> Levanta("KeyboardInterrupt")

---------------------------------------------------------------------------
(* Construction *)

\* ProcessadorDePedidos.__init__
ProcessadorDePedidos(metodo, lista) ==
    [metodo_pagamento |-> metodo, notificadores |-> lista]

criar_processador_cartao_email ==
    ProcessadorDePedidos("PagamentoCartaoCredito", <<"NotificadorEmail">>)

criar_processador_boleto_email ==
    ProcessadorDePedidos("PagamentoBoleto", <<"NotificadorEmail">>)

\* A factory that lists the two notifiers the other way round.
criar_processador_pix_email_sms ==
    ProcessadorDePedidos("PagamentoPix", <<"NotificadorEmail", "NotificadorSMS">>)

criar_processador_pix_sms_email ==
    ProcessadorDePedidos("PagamentoPix", <<"NotificadorSMS", "NotificadorEmail">>)

FabricaProcessadores ==
    {criar_processador_cartao_email, criar_processador_boleto_email,
     criar_processador_pix_sms_email}

ListasDeNotificadores ==
    UNION {[1..n -> ClassesNotificador] : n \in 0..MaxNotificadores}

\* What a caller can pass to processar: a processor of the factory or one it
\* builds itself.
Processadores ==
    FabricaProcessadores \cup
    {ProcessadorDePedidos(m, l) : m \in MetodosPagamento, l \in ListasDeNotificadores}

---------------------------------------------------------------------------
(* The steps of processar *)

Chamada(metodo, classe, alvo) ==
    [metodo |-> metodo, classe |-> classe, alvo |-> alvo]

\* A loop iterator kept in one place for every call.
QuadroCompartilhado(a) == "a"

\* The frame of caller a's call: the for loop's iterator is a local of it.
Quadro(a) == a

\* A loop that walks the list backwards.
PosicaoInvertida(n, k) == n - k + 1

\* for notificador in self.notificadores: iteration k takes the k-th element.
PosicaoDaVez(n, k) == k

\* A loop that stops after its first iteration.
FimDoLacoCedo(n, k) == k > 1

\* The for loop ends when the list of n elements is exhausted.
FimDoLaco(n, k) == k > n

\* A payment test written without its "not".
AposPagamentoInvertido(ok) == IF ok THEN "retornou" ELSE "notificacoes"

\* A payment step that does not look at the result.
AposPagamentoSemTeste(ok) == "notificacoes"

\* if not processar_pagamento(pedido): ... return False
AposPagamento(ok) == IF ok THEN "notificacoes" ELSE "retornou"

\* A loop that gives up when a notifier returns False.
NotificacaoConferida(valor) == valor

\* notificador.enviar_notificacao(pedido): the returned value is dropped.
NotificacaoAceita(valor) == TRUE

\* A call of processar that has begun and not ended.
EmCurso(a) == pc[a] \in {"inicio", "pagamento", "notificacoes", "excecao"}

\* A call of processar that has ended: it returned or it raised.
Terminou(a) == pc[a] \in {"retornou", "propagou"}

\* The caller calls processar(pedido).
Chamar(a) ==
    /\ pc[a] \in {"ocioso", "retornou", "propagou"}
    /\ restantes[a] > 0
    /\ restantes' = [restantes EXCEPT ![a] = @ - 1]
    /\ pc' = [pc EXCEPT ![a] = "inicio"]
    /\ exc' = [exc EXCEPT ![a] = "nenhuma"]
    /\ retorno' = [retorno EXCEPT ![a] = "nenhum"]
    /\ chamadas' = [chamadas EXCEPT ![a] = <<>>]
    /\ atribuiu' = [atribuiu EXCEPT ![a] = FALSE]
    /\ pedido_antes' = [pedido_antes EXCEPT ![a] = pedido[a]]
    /\ simultaneas' = (simultaneas \/ \E b \in Invocadores \ {a} : EmCurso(b))
    /\ UNCHANGED <<processador, pedido, i>>

\* print(f"Processando o pedido #{pedido['id']} ... {pedido['valor']:.2f}...")
Iniciar(a) ==
    /\ pc[a] = "inicio"
    /\ LET r == IF "id" \in pedido[a].campos
                THEN Lendo(pedido[a], "valor", TRUE)
                ELSE Levanta("KeyError")
       IN /\ pc' = [pc EXCEPT ![a] = IF r.exc = "nenhuma" THEN "pagamento"
                                                         ELSE "excecao"]
          /\ exc' = [exc EXCEPT ![a] = r.exc]
    /\ UNCHANGED <<processador, pedido, i, retorno, chamadas, atribuiu,
                   pedido_antes, restantes,
                   simultaneas>>

\* if not self.metodo_pagamento.processar_pagamento(pedido): return False
Pagar(a) ==
    /\ pc[a] = "pagamento"
    /\ LET m == processador.metodo_pagamento
           r == processar_pagamento(m, pedido[a])
           destino == IF r.exc = "nenhuma" THEN AposPagamento(r.valor)
                                           ELSE "excecao"
       IN /\ chamadas' = [chamadas EXCEPT
                 ![a] = Append(@, Chamada("processar_pagamento", m, 0))]
          /\ pc' = [pc EXCEPT ![a] = destino]
          /\ exc' = [exc EXCEPT ![a] = r.exc]
          /\ retorno' = [retorno EXCEPT
                 ![a] = IF destino = "retornou" THEN "False" ELSE @]
    /\ i' = [i EXCEPT ![Quadro(a)] = 1]
    /\ UNCHANGED <<processador, pedido, atribuiu, pedido_antes, restantes,
                   simultaneas>>

\* One iteration of: for notificador in self.notificadores:
\*                       notificador.enviar_notificacao(pedido)
Notificar(a) ==
    /\ pc[a] = "notificacoes"
    /\ LET lista == processador.notificadores
           k == i[Quadro(a)]
           pos == PosicaoDaVez(Len(lista), k)
       IN /\ ~FimDoLaco(Len(lista), k)
          /\ pos \in 1..Len(lista)
          /\ LET r == enviar_notificacao(lista[pos], pedido[a])
                 segue == r.exc = "nenhuma" /\ NotificacaoAceita(r.valor)
             IN /\ chamadas' = [chamadas EXCEPT
                       ![a] = Append(@, Chamada("enviar_notificacao", lista[pos], pos))]
                /\ exc' = [exc EXCEPT ![a] = r.exc]
                /\ pc' = [pc EXCEPT
                       ![a] = IF r.exc # "nenhuma" THEN "excecao"
                              ELSE IF segue THEN "notificacoes" ELSE "retornou"]
                /\ retorno' = [retorno EXCEPT
                       ![a] = IF r.exc = "nenhuma" /\ ~segue THEN "False" ELSE @]
          /\ i' = [i EXCEPT ![Quadro(a)] = k + 1]
    /\ UNCHANGED <<processador, pedido, atribuiu, pedido_antes, restantes,
                   simultaneas>>

\* pedido['status'] = 'concluido'; print("Pedido concluído!"); return True
Finalizar(a) ==
    /\ pc[a] = "notificacoes"
    /\ FimDoLaco(Len(processador.notificadores), i[Quadro(a)])
    /\ pedido' = [pedido EXCEPT ![a] = Concluir(@)]
    /\ atribuiu' = [atribuiu EXCEPT ![a] = TRUE]
    /\ retorno' = [retorno EXCEPT ![a] = "True"]
    /\ pc' = [pc EXCEPT ![a] = "retornou"]
    /\ UNCHANGED <<processador, i, exc, chamadas, pedido_antes, restantes,
                   simultaneas>>

\* except Exception as e: print(...); return False
Capturar(a) ==
    /\ pc[a] = "excecao"
    /\ Capturada(exc[a])
    /\ retorno' = [retorno EXCEPT ![a] = RetornoDoExcept]
    /\ pc' = [pc EXCEPT ![a] = "retornou"]
    /\ UNCHANGED <<processador, pedido, i, exc, chamadas, atribuiu,
                   pedido_antes, restantes,
                   simultaneas>>

\* An exception the except clause does not name leaves processar.
Propagar(a) ==
    /\ pc[a] = "excecao"
    /\ ~Capturada(exc[a])
    /\ retorno' = [retorno EXCEPT ![a] = "excecao"]
    /\ pc' = [pc EXCEPT ![a] = "propagou"]
    /\ UNCHANGED <<processador, pedido, i, exc, chamadas, atribuiu,
                   pedido_antes, restantes,
                   simultaneas>>

\* The body of processar, one statement at a time.
Passo(a) ==
    \/ Iniciar(a)
    \/ Pagar(a)
    \/ Notificar(a)
    \/ Finalizar(a)
    \/ Capturar(a)
    \/ Propagar(a)

Next == \E a \in Invocadores : Chamar(a) \/ Passo(a)

---------------------------------------------------------------------------
(* Specifications *)

InitComum ==
    /\ processador \in Processadores
    /\ pc = [a \in Invocadores |-> "ocioso"]
    /\ i = [a \in Invocadores |-> 1]
    /\ exc = [a \in Invocadores |-> "nenhuma"]
    /\ retorno = [a \in Invocadores |-> "nenhum"]
    /\ chamadas = [a \in Invocadores |-> <<>>]
    /\ atribuiu = [a \in Invocadores |-> FALSE]
    /\ pedido_antes = pedido
    /\ simultaneas = FALSE

\* One caller, which calls processar on its pedido MaxChamadas times, each
\* call after the previous one ended.
Init ==
    /\ pedido \in {p \in [Invocadores -> Pedidos] :
                     /\ p["a"].status = "pendente"
                     /\ p["b"] = PedidoBemFormado}
    /\ restantes = [a \in Invocadores |-> IF a = "a" THEN MaxChamadas ELSE 0]
    /\ InitComum

Spec == Init /\ [][Next]_vars

\* processar is a synchronous call: once entered, its statements run.
FairSpec == Spec /\ \A a \in Invocadores : WF_vars(Passo(a))

\* Two callers sharing the processor, one call each, steps interleaved.
InitConc ==
    /\ pedido \in {p \in [Invocadores -> Pedidos] :
                     \A a \in Invocadores :
                        /\ p[a].status = "pendente"
                        /\ Cardinality(CamposLidos \ p[a].campos) <= MaxAusentes}
    /\ restantes = [a \in Invocadores |-> 1]
    /\ InitComum

SpecConc == InitConc /\ [][Next]_vars

---------------------------------------------------------------------------
(* processar run from beginning to end by one caller *)

RECURSIVE LacoSozinho(_, _, _, _)
\* The for loop from its k-th iteration on, then the completion.
LacoSozinho(lista, ped, k, feitas) ==
    IF k > Len(lista)
    THEN [retorno |-> "True", pedido |-> Concluir(ped), chamadas |-> feitas]
    ELSE LET r == enviar_notificacao(lista[k], ped)
             agora == Append(feitas, Chamada("enviar_notificacao", lista[k], k))
         IN IF r.exc = "nenhuma"
            THEN LacoSozinho(lista, ped, k + 1, agora)
            ELSE [retorno |-> IF Capturada(r.exc) THEN RetornoDoExcept ELSE "excecao",
                  pedido |-> ped, chamadas |-> agora]

\* What one uninterrupted processar(ped) on processor proc gives: the value
\* returned, the pedido afterwards and the calls made to the collaborators.
ProcessarSozinho(proc, ped) ==
    LET m == proc.metodo_pagamento
        pago == <<Chamada("processar_pagamento", m, 0)>>
        r == processar_pagamento(m, ped)
        falha(e, feitas) ==
            [retorno |-> IF Capturada(e) THEN RetornoDoExcept ELSE "excecao",
             pedido |-> ped, chamadas |-> feitas]
    IN IF ~({"id", "valor"} \subseteq ped.campos) THEN falha("KeyError", <<>>)
       ELSE IF r.exc # "nenhuma" THEN falha(r.exc, pago)
       ELSE IF ~r.valor THEN [retorno |-> "False", pedido |-> ped, chamadas |-> pago]
       ELSE LacoSozinho(proc.notificadores, ped, 1, pago)

---------------------------------------------------------------------------
(* Reading the record of a call *)

ChamadasDePagamento(a) ==
    SelectSeq(chamadas[a], LAMBDA c : c.metodo = "processar_pagamento")

ChamadasDeNotificacao(a) ==
    SelectSeq(chamadas[a], LAMBDA c : c.metodo = "enviar_notificacao")

Alvos(s) == [k \in 1..Len(s) |-> s[k].alvo]

Classes(s) == [k \in 1..Len(s) |-> s[k].classe]

NumNotificadores == Len(processador.notificadores)

\* The payment step of a's current call has been executed and the payment
\* method returned v.
PagamentoRetornou(a, v) ==
    /\ Len(chamadas[a]) >= 1
    /\ processar_pagamento(processador.metodo_pagamento, pedido_antes[a]) = Retorna(v)

\* The k-th configured notifier returns a value (any) on a's pedido.
NotificadorRetorna(a, k) ==
    enviar_notificacao(processador.notificadores[k], pedido_antes[a]).exc = "nenhuma"

TodosNotificadoresRetornam(a) ==
    \A k \in 1..NumNotificadores : NotificadorRetorna(a, k)

---------------------------------------------------------------------------
(* Claims *)

\* C1 as stated: for every well-formed pedido and every processor whose payment
\* method returns True, with any list of notifiers, processar returns True and
\* leaves status = 'concluido'.
C1_Original ==
    \A a \in Invocadores :
        (Terminou(a) /\ BemFormado(pedido_antes[a]) /\ PagamentoRetornou(a, TRUE))
            => (retorno[a] = "True" /\ pedido[a].status = "concluido")

\* C1 amended: for every well-formed pedido and every processor whose payment
\* method returns True and whose notifiers all return a value (True or False),
\* processar returns True and leaves status = 'concluido'.
C1_PagamentoTrueConclui ==
    \A a \in Invocadores :
        (/\ Terminou(a)
         /\ BemFormado(pedido_antes[a])
         /\ PagamentoRetornou(a, TRUE)
         /\ TodosNotificadoresRetornam(a))
            => (retorno[a] = "True" /\ pedido[a].status = "concluido")

\* A first call on a well-formed pending pedido, payment True, two notifiers of
\* which one returns False, has returned True.
C1_Witness ==
    /\ Terminou("a")
    /\ restantes["a"] = MaxChamadas - 1
    /\ BemFormado(pedido_antes["a"])
    /\ PagamentoRetornou("a", TRUE)
    /\ NumNotificadores = 2
    /\ TodosNotificadoresRetornam("a")
    /\ "NotificadorRetornaFalse" \in {processador.notificadores[k] : k \in 1..2}
    /\ retorno["a"] = "True"

\* C2: for every well-formed pedido with status 'pendente' and a payment method
\* that returns False, processar returns False, the status is still 'pendente',
\* and no notifier has been called, at the end of the call and at every
\* moment after the payment step.
C2_PagamentoFalseInterrompe ==
    \A a \in Invocadores :
        (/\ BemFormado(pedido_antes[a])
         /\ pedido_antes[a].status = "pendente"
         /\ PagamentoRetornou(a, FALSE))
            => /\ Terminou(a)
               /\ retorno[a] = "False"
               /\ pedido[a].status = "pendente"
               /\ ChamadasDeNotificacao(a) = <<>>
               /\ Len(ChamadasDePagamento(a)) = 1

\* A call with a payment method returning False and two notifiers configured
\* has ended.
C2_Witness ==
    /\ Terminou("a")
    /\ BemFormado(pedido_antes["a"])
    /\ pedido_antes["a"].status = "pendente"
    /\ PagamentoRetornou("a", FALSE)
    /\ NumNotificadores = 2

\* C3: the notifiers are called in list order, each at most once (the calls
\* made so far are always those of positions 1..j, on the objects configured
\* there), and when the payment returned True and every notifier returns a
\* value, whatever the value, the ended call has called all of them: 1..n.
C3_NotificadoresEmOrdem ==
    \A a \in Invocadores :
        LET feitas == ChamadasDeNotificacao(a)
        IN /\ Len(feitas) <= NumNotificadores
           /\ Alvos(feitas) = [k \in 1..Len(feitas) |-> k]
           /\ Classes(feitas) = [k \in 1..Len(feitas) |-> processador.notificadores[k]]
           /\ (Terminou(a) /\ PagamentoRetornou(a, TRUE) /\ TodosNotificadoresRetornam(a))
                => Len(feitas) = NumNotificadores

\* A call whose two different notifiers returned False and True has ended
\* with both called.
C3_Witness ==
    /\ Terminou("a")
    /\ PagamentoRetornou("a", TRUE)
    /\ processador.notificadores = <<"NotificadorRetornaFalse", "NotificadorSMS">>
    /\ Len(ChamadasDeNotificacao("a")) = 2

\* C4 as stated: processar never propagates an exception: if the payment method
\* or a notifier raises, or the pedido lacks one of id, valor, cliente_email,
\* the call returns False.
C4_Original ==
    \A a \in Invocadores :
        /\ pc[a] # "propagou"
        /\ (Terminou(a) /\ exc[a] # "nenhuma") => retorno[a] = "False"

\* C4 amended: processar never propagates an exception that is an instance of
\* Exception: if the payment method or a notifier raises one, or a key that the
\* call reads is missing from the pedido (id and valor always, cliente_email
\* when the e-mail notifier is reached), the call returns False.  Only an
\* exception that is not an instance of Exception leaves processar.
C4_ExceptionCapturada ==
    \A a \in Invocadores :
        /\ pc[a] = "propagou" => exc[a] \in SomenteBaseException
        /\ (Terminou(a) /\ exc[a] \in SubclassesDeException)
              => (pc[a] = "retornou" /\ retorno[a] = "False")
        /\ (Terminou(a) /\ ~({"id", "valor"} \subseteq pedido_antes[a].campos))
              => (retorno[a] = "False" /\ exc[a] = "KeyError" /\ chamadas[a] = <<>>)
        /\ (/\ Terminou(a)
            /\ Len(chamadas[a]) >= 1
            /\ chamadas[a][Len(chamadas[a])].classe = "NotificadorEmail"
            /\ "cliente_email" \notin pedido_antes[a].campos)
              => (retorno[a] = "False" /\ exc[a] = "KeyError")

\* A call in which the second notifier raised RuntimeError has returned False.
C4_Witness ==
    /\ pc["a"] = "retornou"
    /\ exc["a"] = "RuntimeError"
    /\ Len(ChamadasDeNotificacao("a")) = 2
    /\ retorno["a"] = "False"

\* The record of a call that attempted the payment once and then every
\* configured notifier once, in list order.
TudoTentado(a) ==
    /\ Len(chamadas[a]) = 1 + NumNotificadores
    /\ chamadas[a][1] = Chamada("processar_pagamento", processador.metodo_pagamento, 0)
    /\ \A k \in 1..NumNotificadores :
          chamadas[a][k + 1] =
              Chamada("enviar_notificacao", processador.notificadores[k], k)

\* C5: over any sequence of processar calls on a pedido, a step that changes
\* the pedido changes its status from 'pendente' to 'concluido' and nothing
\* else, and at that step the payment and every configured notifier of the
\* call have been attempted; the status never leaves 'concluido'.
C5_StatusSoPendenteParaConcluido ==
    [][\A a \in Invocadores :
          /\ pedido'[a] # pedido[a] =>
                /\ pedido[a].status = "pendente"
                /\ pedido'[a].status = "concluido"
                /\ pedido'[a].campos = pedido[a].campos
                /\ pc[a] = "notificacoes"
                /\ TudoTentado(a)
          /\ pedido[a].status = "concluido" => pedido'[a].status = "concluido"]_vars

\* The second call on a pedido that the first call completed has ended, after
\* the payment and two notifiers.
C5_Witness ==
    /\ restantes["a"] = MaxChamadas - 2
    /\ Terminou("a")
    /\ pedido_antes["a"].status = "concluido"
    /\ pedido["a"].status = "concluido"
    /\ NumNotificadores = 2
    /\ TudoTentado("a")

\* C6: the values the notifiers return do not affect the outcome: once the
\* payment returned True, a notifier that returns a value, True or False,
\* never ends the call nor makes it return False, and when all of them return
\* a value the call returns True with status 'concluido', all of them
\* returning False included.
C6_RetornoDosNotificadoresIgnorado ==
    \A a \in Invocadores :
        LET feitas == ChamadasDeNotificacao(a)
            n == Len(feitas)
        IN (/\ PagamentoRetornou(a, TRUE)
            /\ \A k \in 1..n : NotificadorRetorna(a, k))
              => /\ retorno[a] # "False"
                 /\ pc[a] \in {"notificacoes", "retornou"}
                 /\ pc[a] = "retornou" =>
                       /\ n = NumNotificadores
                       /\ retorno[a] = "True"
                       /\ pedido[a].status = "concluido"

\* A call whose two notifiers both returned False has returned True.
C6_Witness ==
    /\ PagamentoRetornou("a", TRUE)
    /\ processador.notificadores =
           <<"NotificadorRetornaFalse", "NotificadorRetornaFalse">>
    /\ pc["a"] = "retornou"
    /\ retorno["a"] = "True"
    /\ pedido["a"].status = "concluido"

\* The classes called by a's current call, in the order of the calls.
ClassesChamadas(a) == Classes(chamadas[a])

\* C7: each constructor of the factory yields the processor its name says, and
\* processar of it on a well-formed pending pedido returns True, ends with
\* status 'concluido', calls the payment method once and then the notifiers in
\* the listed order (SMS before e-mail for the Pix processor).
C7_FabricaComoNomeada ==
    \A a \in Invocadores :
        (/\ Terminou(a)
         /\ BemFormado(pedido_antes[a])
         /\ pedido_antes[a].status = "pendente")
            => /\ processador \in FabricaProcessadores =>
                     /\ retorno[a] = "True"
                     /\ pedido[a].status = "concluido"
                     /\ Len(ChamadasDePagamento(a)) = 1
               /\ processador = criar_processador_cartao_email =>
                     ClassesChamadas(a) = <<"PagamentoCartaoCredito", "NotificadorEmail">>
               /\ processador = criar_processador_boleto_email =>
                     ClassesChamadas(a) = <<"PagamentoBoleto", "NotificadorEmail">>
               /\ processador = criar_processador_pix_sms_email =>
                     ClassesChamadas(a) =
                         <<"PagamentoPix", "NotificadorSMS", "NotificadorEmail">>

\* The Pix processor of the factory has processed a well-formed pending pedido.
C7_Witness ==
    /\ processador = criar_processador_pix_sms_email
    /\ Terminou("a")
    /\ restantes["a"] = MaxChamadas - 1
    /\ BemFormado(pedido_antes["a"])
    /\ retorno["a"] = "True"
    /\ Len(chamadas["a"]) = 3

\* C8: two calls of processar that share the processor and its collaborators,
\* each on a pedido of its own, with their steps interleaved in any way: each
\* call's returned value, final pedido and sequence of payment and notifier
\* calls are those of the same call run alone, and a pedido is changed by its
\* own call only.
C8_IntercalacaoIgualASozinho ==
    \A a \in Invocadores :
        LET sozinho == ProcessarSozinho(processador, pedido_antes[a])
        IN /\ Terminou(a) =>
                 /\ retorno[a] = sozinho.retorno
                 /\ pedido[a] = sozinho.pedido
                 /\ chamadas[a] = sozinho.chamadas
           /\ pedido[a] = IF atribuiu[a] THEN Concluir(pedido_antes[a])
                                         ELSE pedido_antes[a]
           /\ ~Terminou(a) => SubSeq(sozinho.chamadas, 1, Len(chamadas[a])) = chamadas[a]

\* Two calls that overlapped in time have both ended, one with True after two
\* notifiers, on pedidos that differ.
C8_Witness ==
    /\ simultaneas
    /\ Terminou("a") /\ Terminou("b")
    /\ NumNotificadores = 2
    /\ retorno["a"] = "True"
    /\ retorno["b"] = "False"
    /\ pedido_antes["a"] # pedido_antes["b"]

\* The part of C9 that holds of every state: the payment method is called at
\* most once per call and before any notifier; no notifier is called once the
\* status has been set; a call that returned False made no assignment and one
\* that returned True made it after every notifier.
C9_Ordem ==
    \A a \in Invocadores :
        /\ Len(ChamadasDePagamento(a)) <= 1
        /\ chamadas[a] # <<>> => chamadas[a][1].metodo = "processar_pagamento"
        /\ atribuiu[a] => (pc[a] = "retornou" /\ retorno[a] = "True" /\ TudoTentado(a))
        /\ pc[a] = "notificacoes" => PagamentoRetornou(a, TRUE)
        /\ (pc[a] = "retornou" /\ retorno[a] = "False") => ~atribuiu[a]

\* C9 as stated: every call follows Started -> PaymentAttempted -> (Failed |
\* NotificationsAttempted) -> Completed, and every call that ends ends in Failed
\* (returns False) or in Completed (returns True).
C9_Original ==
    /\ C9_Ordem
    /\ \A a \in Invocadores : Terminou(a) => retorno[a] \in {"True", "False"}

\* C9 amended: the order of the steps as stated, and with a finite list of
\* notifiers every call ends: in Failed (returns False), in Completed
\* (returns True), or, when the payment method or a notifier raised an
\* exception that is not an instance of Exception, by raising it.
C9_MaquinaDeEstados ==
    /\ []C9_Ordem
    /\ [](\A a \in Invocadores :
             Terminou(a) => \/ (pc[a] = "retornou" /\ retorno[a] \in {"True", "False"})
                            \/ (pc[a] = "propagou" /\ exc[a] \in SomenteBaseException))
    /\ \A a \in Invocadores : EmCurso(a) ~> Terminou(a)

\* A call has gone through the payment and two notifiers and ended Completed.
C9_Witness ==
    /\ pc["a"] = "retornou"
    /\ retorno["a"] = "True"
    /\ atribuiu["a"]
    /\ NumNotificadores = 2

\* The last call recorded is the notifier at position k, and it raised.
NotificadorLevantou(a, k) ==
    /\ Len(chamadas[a]) = k + 1
    /\ chamadas[a][k + 1].metodo = "enviar_notificacao"
    /\ exc[a] # "nenhuma"

\* What C10 says of a raising notifier besides the returned value: the payment
\* was called once, the notifiers before k once each, none after k, and the
\* pedido is as it was.
AntesDeLevantar(a, k) ==
    /\ chamadas[a] =
          <<Chamada("processar_pagamento", processador.metodo_pagamento, 0)>> \o
          [j \in 1..k |-> Chamada("enviar_notificacao", processador.notificadores[j], j)]
    /\ pedido[a] = pedido_antes[a]

\* What C10 says of every ended call: False leaves the pedido as it was, and
\* True is returned exactly when the call set the status.
C10_Quadro ==
    \A a \in Invocadores :
        /\ (Terminou(a) /\ retorno[a] = "False") => pedido[a] = pedido_antes[a]
        /\ Terminou(a) => (retorno[a] = "True" <=> atribuiu[a])
        /\ (Terminou(a) /\ atribuiu[a]) => pedido[a] = Concluir(pedido_antes[a])

\* C10 as stated: ..., and if the notifier at position k raises, the payment was
\* called once, the notifiers before k once each, those after k never, the
\* status is unchanged and the result is False.
C10_Original ==
    /\ C10_Quadro
    /\ \A a \in Invocadores : \A k \in 1..NumNotificadores :
          (Terminou(a) /\ NotificadorLevantou(a, k))
              => (AntesDeLevantar(a, k) /\ retorno[a] = "False")

\* C10 amended: ..., and if the notifier at position k raises, the payment was
\* called once, the notifiers before k once each, those after k never, the
\* status is unchanged, and the result is False when the exception is an
\* instance of Exception; an exception that is not leaves processar instead.
C10_FalseDeixaPedidoIntacto ==
    /\ C10_Quadro
    /\ \A a \in Invocadores : \A k \in 1..NumNotificadores :
          (Terminou(a) /\ NotificadorLevantou(a, k))
              => /\ AntesDeLevantar(a, k)
                 /\ exc[a] \in SubclassesDeException => retorno[a] = "False"
                 /\ exc[a] \notin SubclassesDeException => retorno[a] = "excecao"

\* The second of two notifiers raised RuntimeError: the call returned False and
\* the pedido is as it was.
C10_Witness ==
    /\ Terminou("a")
    /\ NumNotificadores = 2
    /\ NotificadorLevantou("a", 2)
    /\ exc["a"] = "RuntimeError"
    /\ retorno["a"] = "False"
    /\ pedido["a"] = pedido_antes["a"]

====
